---- MODULE Spec2Model ----
(***************************************************************************)
(* The catalog-building pipeline of the documentation generator            *)
(* (docs/src/generator.rs, LibftParser::parse and main): a source tree is  *)
(* walked, implementation files and header declarations are turned into    *)
(* FunctionMetadata records, manual override documents are loaded and      *)
(* merged, and the catalog (functions, order, categories) is returned.     *)
(*                                                                         *)
(* Text is modelled by TLA+ strings, the Rust str methods by operators     *)
(* over them, and each regular expression of the code by an operator that  *)
(* computes its leftmost match on the text.                                *)
(***************************************************************************)
EXTENDS Integers, Sequences, FiniteSets, TLC

(***************************************************************************)
(* Rust str / Option helpers                                               *)
(***************************************************************************)
None == <<>>
Some(v) == <<v>>

Max(S) == CHOOSE x \in S : \A y \in S : y <= x
Min(S) == CHOOSE x \in S : \A y \in S : x <= y

CharAt(s, i) == SubSeq(s, i, i)

\* Vec::contains / iter().any(|n| n == x)
InSeq(x, seq) == \E i \in 1..Len(seq) : seq[i] = x

\* str::starts_with
StartsWith(s, p) == Len(p) <= Len(s) /\ SubSeq(s, 1, Len(p)) = p

\* str::contains
Contains(s, sub) ==
    \E i \in 1..(Len(s) - Len(sub) + 1) : SubSeq(s, i, i + Len(sub) - 1) = sub

\* char::is_whitespace, for the characters that occur in the modelled text
Spaces == {" ", "\t", "\n"}
IsSpace(c) == c \in Spaces

\* the first index >= i of s holding a character of chars (0 when none)
RECURSIVE FirstOf(_, _, _)
FirstOf(s, i, chars) ==
    IF i > Len(s) THEN 0
    ELSE IF CharAt(s, i) \in chars THEN i
    ELSE FirstOf(s, i + 1, chars)

\* the first index >= i of s holding no character of chars (Len(s) + 1 when none)
RECURSIVE SkipOver(_, _, _)
SkipOver(s, i, chars) ==
    IF i > Len(s) \/ CharAt(s, i) \notin chars THEN i
    ELSE SkipOver(s, i + 1, chars)

\* the last index <= i of s holding no character of chars (0 when none)
RECURSIVE SkipBack(_, _, _)
SkipBack(s, i, chars) ==
    IF i < 1 \/ CharAt(s, i) \notin chars THEN i
    ELSE SkipBack(s, i - 1, chars)

\* the last index <= i of s holding a character of chars (0 when none)
RECURSIVE LastOf(_, _, _)
LastOf(s, i, chars) ==
    IF i < 1 THEN 0
    ELSE IF CharAt(s, i) \in chars THEN i
    ELSE LastOf(s, i - 1, chars)

\* str::trim_start / trim_end / trim
TrimStart(s) == SubSeq(s, SkipOver(s, 1, Spaces), Len(s))

TrimEnd(s) == SubSeq(s, 1, SkipBack(s, Len(s), Spaces))

Trim(s) == TrimEnd(TrimStart(s))

\* str::trim_end_matches(c) / trim_start_matches(c) for one character c
TrimEndMatches(s, c) == SubSeq(s, 1, SkipBack(s, Len(s), {c}))

TrimStartMatches(s, c) == SubSeq(s, SkipOver(s, 1, {c}), Len(s))

\* s.split(sep).next(): the text before the first sep (all of s when none)
SplitFirst(s, sep) ==
    LET at == FirstOf(s, 1, {sep})
    IN  IF at = 0 THEN s ELSE SubSeq(s, 1, at - 1)

\* [String]::join(sep)
RECURSIVE Join(_, _)
Join(parts, sep) ==
    IF Len(parts) = 0 THEN ""
    ELSE IF Len(parts) = 1 THEN parts[1]
    ELSE parts[1] \o sep \o Join(Tail(parts), sep)

\* s.trim().is_empty()
IsBlank(s) == Trim(s) = ""

(***************************************************************************)
(* std::path helpers.  A path is the sequence of its components.           *)
(***************************************************************************)
LastDot(name) == LastOf(name, Len(name), {"."})

\* Path::extension of a file name: the text after the last '.', when the
\* name has one that is not its first character
Extension(name) ==
    IF LastDot(name) <= 1 THEN None
    ELSE Some(SubSeq(name, LastDot(name) + 1, Len(name)))

\* Path::file_stem of a file name
FileStem(name) ==
    IF LastDot(name) <= 1 THEN name ELSE SubSeq(name, 1, LastDot(name) - 1)

IsPrefix(p, q) == Len(p) <= Len(q) /\ SubSeq(q, 1, Len(p)) = p

\* the characters of the modelled texts that UTF-8 encodes in two bytes
TwoByteChars == {"é"}

\* str::len: the length of s in bytes
ByteLen(s) == Len(s) + Cardinality({i \in 1..Len(s) : CharAt(s, i) \in TwoByteChars})

(***************************************************************************)
(* Regular-expression helpers: character classes and scanning              *)
(***************************************************************************)
Lower == {"a", "b", "c", "d", "e", "f", "g", "h", "i", "j", "k", "l", "m",
          "n", "o", "p", "q", "r", "s", "t", "u", "v", "w", "x", "y", "z"}
Upper == {"A", "B", "C", "D", "E", "F", "G", "H", "I", "J", "K", "L", "M",
          "N", "O", "P", "Q", "R", "S", "T", "U", "V", "W", "X", "Y", "Z"}
Digit == {"0", "1", "2", "3", "4", "5", "6", "7", "8", "9"}

Letters == Lower \cup Upper \cup {"_"}
WordChars == Letters \cup Digit

\* \w
IsWord(c) == c \in WordChars

\* the literal lit stands at index i of s
At(s, i, lit) == i >= 1 /\ i + Len(lit) - 1 <= Len(s) /\ SubSeq(s, i, i + Len(lit) - 1) = lit

\* the first index >= i of s that holds no whitespace (Len(s) + 1 when none): \s*
SkipSpace(s, i) == SkipOver(s, i, Spaces)

\* the last index in lo..hi of s that holds no whitespace (0 when none)
LastNonSpace(s, lo, hi) ==
    LET r == SkipBack(s, hi, Spaces)
    IN  IF r < lo THEN 0 ELSE r

\* (?m)^ : index i of s starts a line
LineStart(s, i) == i = 1 \/ (i >= 2 /\ i <= Len(s) + 1 /\ CharAt(s, i - 1) = "\n")

\* the line start of the line index i of s lies on
LineStartOf(s, i) == LastOf(s, i - 1, {"\n"}) + 1

\* \b before a word character at index i
BoundaryBefore(s, i) == i = 1 \/ ~IsWord(CharAt(s, i - 1))

(***************************************************************************)
(* The file universe: every file a modelled source tree can hold, by its   *)
(* path relative to the source directory, with its content.                *)
(***************************************************************************)
SourceDirName == "lib"          \* the --source argument when it names a directory
RootFileName == "ft_solo.c"     \* the --source argument when it names a plain file

StrlenC == <<"libft", "strings", "ft_strlen.c">>
LibftH == <<"libft", "include", "libft.h">>
PushC == <<"libft", "ds", "stack", "ft_push.c">>
MainC == <<"libft", "main.c">>
DupStrlenC == <<"extra", "ft_strlen.c">>
TopC == <<"ft_top.c">>
StackH == <<"include", "stack.h">>
DomainC == <<"ft_domain.c">>     \* a file whose name merely contains main.c
HiddenH == <<"libft", ".cache", "ft_tmp.h">>     \* an empty header in a hidden directory
NotesMd == <<"libft", "notes", "todo.md">>      \* a directory without code
RootFile == <<>>                \* the source path itself, when it is a plain file

StrlenJson == <<"libft", "docs", "man", "ft_strlen.json">>
StrlenMd == <<"libft", "docs", "man", "ft_strlen.md">>
PushJson == <<"docs", "api", "ft_push.json">>
MemsetJson == <<"docs", "ft_memset.json">>
SlashJson == <<"docs", "man", "slash.json">>
Strlen2Json == <<"docs", "api", "ft_strlen.json">>
BadJson == <<"docs", "bad.json">>
NoCatJson == <<"docs", "nocat.json">>

CodePaths == {StrlenC, LibftH, PushC, MainC, DupStrlenC, TopC, StackH, HiddenH,
              DomainC}
DocPaths == {StrlenJson, StrlenMd, PushJson, MemsetJson, SlashJson, Strlen2Json,
             BadJson, NoCatJson, NotesMd}
PathUniverse == CodePaths \cup DocPaths

\* the text of a .c or .h file of the universe: what fs::read_to_string returns
FileText(p) ==
    CASE p = StrlenC ->
           "/* Computes string length. */\nsize_t ft_strlen(const char *s) {\n  while (s[i]) i++;\n}"
      [] p = LibftH ->
           "// libft API\nsize_t ft_strlen(const char *s);\nvoid ft_push(int x);"
      [] p = PushC ->
           "/** Pushes a value onto the stack. */\nvoid ft_push(t_stack *s, int x)\n{\n  n = malloc(sizeof(*n));\n}"
      [] p = MainC ->
           "int main(void) {\n  return (0);\n}"
      [] p = DupStrlenC ->
           "return ft_strlen(s) + 1;"
      [] p = TopC ->
           "int x;"
      [] p = StackH ->
           "/* Stack operations for the library */\n  void ft_push(int x) ;"
      [] p = RootFile ->
           "int ft_solo(void) {\n}"
      [] p = DomainC ->
           "int ft_domain(int x) {\n  return (x);\n}"
      [] OTHER -> ""

\* the text of a narrative (markdown) document of the universe
MdText(p) == IF p = StrlenMd THEN "Returns the length." ELSE ""

\* the JSON text of an override document of the universe: whether it is
\* well-formed JSON, and the keys it gives with their values
JsonDoc(p) ==
    CASE p = StrlenJson ->
           [wellFormed |-> TRUE,
            given |-> [name |-> "ft_strlen", category |-> "stdlib",
                       prototype |-> "size_t ft_strlen(const char *s);",
                       description |-> "Manual: length of a string",
                       return_value |-> "The length",
                       manual_path |-> Some("ft_strlen.md")]]
      [] p = PushJson ->
           [wellFormed |-> TRUE,
            given |-> [name |-> "ft_push", category |-> "",
                       category_path |-> "ds/stack",
                       tags |-> <<"stack">>]]
      [] p = MemsetJson ->
           [wellFormed |-> TRUE,
            given |-> [name |-> "ft_memset", category |-> ""]]
      [] p = SlashJson ->
           [wellFormed |-> TRUE,
            given |-> [name |-> "", category |-> " ", category_path |-> "/abs"]]
      [] p = Strlen2Json ->
           [wellFormed |-> TRUE,
            given |-> [name |-> "ft_strlen", category |-> "strings",
                       category_path |-> "text/len",
                       description |-> "Second manual"]]
      [] p = NoCatJson ->
           [wellFormed |-> TRUE,
            given |-> [name |-> "ft_nocat", category_path |-> "ds/queue"]]
      [] OTHER -> [wellFormed |-> FALSE, given |-> [name |-> ""]]

(***************************************************************************)
(* extract_function_prototype                                              *)
(***************************************************************************)
\* the index of the "(" that \s*\( finds after the name at index k (0 when none)
ParenAfter(text, k, name) ==
    LET p == SkipSpace(text, k + Len(name))
    IN  IF At(text, p, "(") THEN p ELSE 0

\* ^[^/\n]*\bNAME\s*\( : the name at index k, a word boundary before it, no
\* '/' between the start of its line and it, and a "(" after it
AnchoredName(text, k, name) ==
    /\ At(text, k, name)
    /\ BoundaryBefore(text, k)
    /\ ~Contains(SubSeq(text, LineStartOf(text, k), k - 1), "/")
    /\ ParenAfter(text, k, name) # 0

\* \([^{]*\)\s*{ from the "(" at p: the index of the closing "{" (0 when none)
DefinitionEnd(text, p) ==
    LET q == FirstOf(text, p + 1, {"{"})
        r == IF q = 0 THEN 0 ELSE LastNonSpace(text, p + 1, q - 1)
    IN  IF q # 0 /\ r # 0 /\ CharAt(text, r) = ")" THEN q ELSE 0

\* \([^;]*\); from the "(" at p: the index of the closing ";" (0 when none)
DeclarationEnd(text, p) ==
    LET q == FirstOf(text, p + 1, {";"})
    IN  IF q # 0 /\ q - 1 > p /\ CharAt(text, q - 1) = ")" THEN q ELSE 0

\* pattern 1, (?m)^[^/\n]*\bNAME\s*\([^{]*\)\s*{ : the leftmost match
FindDefinition(text, name) ==
    LET K == {k \in 1..Len(text) :
                 /\ AnchoredName(text, k, name)
                 /\ DefinitionEnd(text, ParenAfter(text, k, name)) # 0}
    IN  IF K = {} THEN None
        ELSE LET b == Min({LineStartOf(text, k) : k \in K})
                 k == Max({j \in K : LineStartOf(text, j) = b})
             IN  Some(SubSeq(text, b, DefinitionEnd(text, ParenAfter(text, k, name))))

\* pattern 2, (?m)^[^/\n]*\bNAME\s*\([^;]*\); : the leftmost match
FindDeclaration(text, name) ==
    LET K == {k \in 1..Len(text) :
                 /\ AnchoredName(text, k, name)
                 /\ DeclarationEnd(text, ParenAfter(text, k, name)) # 0}
    IN  IF K = {} THEN None
        ELSE LET b == Min({LineStartOf(text, k) : k \in K})
                 k == Max({j \in K : LineStartOf(text, j) = b})
             IN  Some(SubSeq(text, b, DeclarationEnd(text, ParenAfter(text, k, name))))

\* pattern 3, (?m)NAME\s*\([^{;]* : the leftmost match
FindLoose(text, name) ==
    LET K == {k \in 1..Len(text) : At(text, k, name) /\ ParenAfter(text, k, name) # 0}
    IN  IF K = {} THEN None
        ELSE LET k == Min(K)
                 q == FirstOf(text, ParenAfter(text, k, name) + 1, {"{", ";"})
             IN  Some(SubSeq(text, k, IF q = 0 THEN Len(text) ELSE q - 1))

\* m.as_str().trim_end_matches('{').trim_end_matches(';').trim()
TrimPrototype(m) == Trim(TrimEndMatches(TrimEndMatches(m, "{"), ";"))

\* the fallback prototype, format!("/* Function: {} */", func_name)
PlaceholderPrototype(name) == "/* Function: " \o name \o " */"

\* an extraction that takes the last pattern that qualifies
ExtractLastPattern(content, func_name) ==
    LET found == << FindDefinition(content, func_name),
                    FindDeclaration(content, func_name),
                    FindLoose(content, func_name) >>
        accepted == {i \in 1..3 :
                        /\ found[i] # None
                        /\ TrimPrototype(found[i][1]) # ""}
    IN  IF accepted = {} THEN PlaceholderPrototype(func_name)
        ELSE TrimPrototype(found[Max(accepted)][1])

extract_function_prototype(content, func_name) ==
    LET found == << FindDefinition(content, func_name),
                    FindDeclaration(content, func_name),
                    FindLoose(content, func_name) >>
        accepted == {i \in 1..3 :
                        /\ found[i] # None
                        /\ TrimPrototype(found[i][1]) # ""
                        /\ ByteLen(TrimPrototype(found[i][1])) > ByteLen(func_name)}
    IN  IF accepted = {} THEN PlaceholderPrototype(func_name)
        ELSE TrimPrototype(found[Min(accepted)][1])

(***************************************************************************)
(* extract_description                                                     *)
(***************************************************************************)
\* OPENER\s*(.*?)\s*\*/ tried at index i: the ways <<w, m>> to match, w the
\* whitespace skipped after the opener and m the length of the capture
\* (which holds no newline)
BlockWays(text, i, opener) ==
    LET a == i + Len(opener)
        maxw == SkipSpace(text, a) - a
        \* the capture from index c stops before the next newline
        room(c) == LET e == FirstOf(text, c, {"\n"})
                   IN  (IF e = 0 THEN Len(text) + 1 ELSE e) - c
    IN  UNION {{<<w, m>> : m \in {x \in 0..room(a + w) :
                                    At(text, SkipSpace(text, a + w + x), "*/")}}
               : w \in 0..maxw}

\* the capture of the leftmost match of OPENER\s*(.*?)\s*\*/ : \s* greedy,
\* then (.*?) lazy
FindBlockComment(text, opener) ==
    LET I == {i \in 1..Len(text) : At(text, i, opener) /\ BlockWays(text, i, opener) # {}}
    IN  IF I = {} THEN None
        ELSE LET i == Min(I)
                 a == i + Len(opener)
                 ways == BlockWays(text, i, opener)
                 w == Max({wm[1] : wm \in ways})
                 m == Min({wm[2] : wm \in {x \in ways : x[1] = w}})
             IN  Some(SubSeq(text, a + w, a + w + m - 1))

\* the capture of the leftmost match of //\s*(.*)
FindLineComment(text) ==
    LET I == {i \in 1..Len(text) : At(text, i, "//")}
    IN  IF I = {} THEN None
        ELSE LET a == SkipSpace(text, Min(I) + 2)
                 e == FirstOf(text, a, {"\n"})
             IN  Some(SubSeq(text, a, IF e = 0 THEN Len(text) ELSE e - 1))

\* lines().map(trim, trim_start_matches('*'), trim).filter(..).join(" ") of a
\* capture; a capture holds no newline, so it has one line at most
CleanComment(comment) ==
    LET line == Trim(TrimStartMatches(Trim(comment), "*"))
    IN  IF \/ line = ""
           \/ Contains(line, "****************")
           \/ Contains(line, ":::      ::::::::")
        THEN "" ELSE line

MinDescriptionLen == 10
NoDescription == "No description available."

extract_description(content) ==
    LET found == << FindBlockComment(content, "/**"),
                    FindBlockComment(content, "/*"),
                    FindLineComment(content) >>
        accepted == {i \in 1..3 :
                        /\ found[i] # None
                        /\ CleanComment(found[i][1]) # ""
                        /\ ByteLen(CleanComment(found[i][1])) > MinDescriptionLen}
    IN  IF accepted = {} THEN NoDescription
        ELSE CleanComment(found[Min(accepted)][1])

(***************************************************************************)
(* generate_tags (generator.rs)                                            *)
(***************************************************************************)
\* a rule that pushes its label twice
TagTwice(cond, label) == IF cond THEN <<label, label>> ELSE << >>

Tag(cond, label) == IF cond THEN <<label>> ELSE << >>

generate_tags(func_name, content) ==
    LET tags ==
            Tag(StartsWith(func_name, "ft_str"), "string")
         \o Tag(StartsWith(func_name, "ft_mem"), "memory")
         \o Tag(StartsWith(func_name, "ft_is"), "validation")
         \o Tag(StartsWith(func_name, "ft_to"), "conversion")
         \o Tag(Contains(func_name, "printf"), "output")
         \o Tag(Contains(func_name, "scanf"), "input")
         \o Tag(Contains(func_name, "list"), "linked_list")
         \o Tag(Contains(content, "malloc"), "allocation")
         \o Tag(Contains(content, "free"), "cleanup")
         \o Tag(Contains(content, "while") \/ Contains(content, "for"), "iteration")
    IN  IF InSeq("allocation", tags) THEN Append(tags, "intermediate")
        ELSE Append(tags, "basic")

(***************************************************************************)
(* The declaration pattern of parse_header_file,                           *)
(* (?m)^\s*[A-Za-z_][\w\s\*\(\)]*\s+(ft_[A-Za-z0-9_]+)\s*\([^;{]*\)\s*;   *)
(***************************************************************************)
\* [\w\s\*\(\)]
DeclChars == WordChars \cup Spaces \cup {"*", "(", ")"}

\* the last index of the run of declaration characters that starts at i
\* (i - 1 when index i holds none)
DeclRunEnd(s, i) == SkipOver(s, i, DeclChars) - 1

\* the last index of the run of [A-Za-z0-9_] that starts at i
IdentEnd(s, i) == SkipOver(s, i, WordChars) - 1

\* the pattern matched from line start b with the captured name at index k:
\* the index of the closing ";" (0 when this is no match)
DeclWay(text, b, k) ==
    LET s == SkipSpace(text, b)
        ie == IdentEnd(text, k + 3)
        p == SkipSpace(text, ie + 1)
        q == FirstOf(text, p + 1, {";", "{"})
        r == IF q = 0 THEN 0 ELSE LastNonSpace(text, p + 1, q - 1)
    IN  IF /\ s <= Len(text)
           /\ CharAt(text, s) \in Letters
           /\ k >= s + 2
           /\ k - 1 <= DeclRunEnd(text, s + 1)
           /\ IsSpace(CharAt(text, k - 1))
           /\ At(text, k, "ft_")
           /\ ie >= k + 3
           /\ At(text, p, "(")
           /\ q # 0
           /\ CharAt(text, q) = ";"
           /\ r # 0
           /\ CharAt(text, r) = ")"
        THEN q ELSE 0

\* Regex::captures_iter: the successive non-overlapping leftmost matches from
\* index from on, each with the whole match and the captured name
RECURSIVE HeaderCaptures(_, _)
HeaderCaptures(text, from) ==
    LET starts == {b \in from..Len(text) : LineStart(text, b)}
        names == {k \in from..Len(text) : At(text, k, "ft_")}
        ways == {bk \in starts \X names : DeclWay(text, bk[1], bk[2]) # 0}
    IN  IF ways = {} THEN << >>
        ELSE LET b == Min({bk[1] : bk \in ways})
                 k == Max({bk[2] : bk \in {x \in ways : x[1] = b}})
                 q == DeclWay(text, b, k)
             IN  << [fname |-> SubSeq(text, k, IdentEnd(text, k + 3)),
                     whole |-> SubSeq(text, b, q)] >>
                 \o HeaderCaptures(text, q + 1)

(***************************************************************************)
(* The state of one run of the generator                                   *)
(***************************************************************************)
VARIABLES
    root_kind,    \* what the source path names: "dir", "missing", "unreadable", "file"
    tree,         \* the files below the source path, by relative path
    unreadable,   \* the files of the tree fs::read_to_string fails on
    pc,           \* where the run is
    categories,   \* parse: let categories
    functions,    \* parse: let mut functions, a map from name to record
    order,        \* parse: let mut order
    walked,       \* the files the walk of parse has yielded, in order
    cand,         \* load_manuals: the index of the candidate directory scanned
    seen,         \* load_manuals: the files the scan of this candidate has yielded
    manuals,      \* load_manuals: let mut out, a map from name to record
    pending,      \* parse: the names of manuals the merge loop has yet to take
    grouped,      \* generate_basic_html: let grouped, a map from path to records
    call          \* a call of one extraction function: its arguments and result

vars == << root_kind, tree, unreadable, pc, categories, functions, order, walked,
           cand, seen, manuals, pending, call, grouped >>

MaxFiles == 3        \* files in a modelled tree
MaxUnreadable == 1   \* unreadable files in a modelled tree

Range(seq) == {seq[i] : i \in 1..Len(seq)}

\* a map insertion that keeps the entry already stored under the key
InsertKeepsOld(map, k, v) == IF k \in DOMAIN map THEN map ELSE (k :> v) @@ map

\* a map insertion that carries the prototype of the entry it replaces over
InsertCarriesOver(map, k, v) ==
    IF k \in DOMAIN map
    THEN (k :> [v EXCEPT !.prototype = map[k].prototype]) @@ map
    ELSE (k :> v) @@ map

\* HashMap::insert
Insert(map, k, v) == (k :> v) @@ map

\* a push that does not look whether the name is there already
PushAlways(ord, name) == Append(ord, name)

\* a push that moves a name already there to the end
PushMovesToEnd(ord, name) == Append(SelectSeq(ord, LAMBDA x : x # name), name)

\* if !order.iter().any(|n| n == &name) { order.push(name.clone()); }
PushNew(ord, name) == IF InSeq(name, ord) THEN ord ELSE Append(ord, name)

EmptyMap == << >>

\* no extraction function is being called on its own
NoCall == [fn |-> "none"]

(***************************************************************************)
(* Paths of the run                                                        *)
(***************************************************************************)
\* the source path as given on the command line
SourceName == IF root_kind = "file" THEN RootFileName ELSE SourceDirName

\* the file name of an entry
FileName(p) == IF p = << >> THEN SourceName ELSE p[Len(p)]

\* entry.path().to_string_lossy()
PathString(p) == Join(<<SourceName>> \o p, "/")

\* relative path d names a directory: some file of the tree lies below it
IsDir(d) ==
    IF d = << >> THEN root_kind \in {"dir", "unreadable"}
    ELSE \E p \in tree : IsPrefix(d, p) /\ Len(p) > Len(d)

\* categories_root, relative to the source path
categories_root == IF IsDir(<<"libft">>) THEN <<"libft">> ELSE << >>

\* path.strip_prefix(&root): the rest of p, when p lies at or below root
StripPrefix(p, root) ==
    IF IsPrefix(root, p) THEN Some(SubSeq(p, Len(root) + 1, Len(p))) ELSE None

Misc == "misc"

extract_category_from_path(p) ==
    LET rel == StripPrefix(p, categories_root)
    IN  IF rel # None /\ Len(rel[1]) > 0 THEN rel[1][1] ELSE Misc

extract_category_path_from_path(p) ==
    LET rel == StripPrefix(p, categories_root)
        parent == IF rel # None /\ Len(rel[1]) > 0
                  THEN Some(SubSeq(rel[1], 1, Len(rel[1]) - 1)) ELSE None
        joined == IF parent = None THEN "" ELSE Join(parent[1], "/")
    IN  IF joined # "" THEN joined ELSE extract_category_from_path(p)

(***************************************************************************)
(* Records                                                                 *)
(***************************************************************************)
NoReturnValue == "Return value description not available."

\* the one generated example of a parsed function
GeneratedExample(name) ==
    [title |-> "Basic usage of " \o name,
     code |-> "// Example usage of " \o name \o "\n// TODO: Add real example",
     output |-> None]

\* the FunctionMetadata parse_c_file and parse_header_file build
ParsedRecord(name, category, category_path, tags, prototype, description) ==
    [name |-> name, category |-> category, category_path |-> category_path,
     tags |-> tags, prototype |-> prototype, description |-> description,
     parameters |-> << >>, return_value |-> NoReturnValue,
     examples |-> << GeneratedExample(name) >>, complexity |-> None,
     notes |-> << >>, see_also |-> << >>, updated_at |-> None,
     author_role |-> None, related |-> << >>, manual_path |-> None,
     manual_html |-> None]

\* parse_c_file on a readable file: Ok(Some(metadata))
parse_c_file(p) ==
    LET content == FileText(p)
        filename == FileStem(FileName(p))
    IN  ParsedRecord(filename,
                     extract_category_from_path(p),
                     extract_category_path_from_path(p),
                     generate_tags(filename, content),
                     extract_function_prototype(content, filename),
                     extract_description(content))

\* cap.get(0).unwrap().as_str().trim().trim_end_matches(';')
PrototypeLine(whole) == TrimEndMatches(Trim(whole), ";")

\* a header record that carries the placeholder prototype instead of the
\* declaration
HeaderRecordWithPlaceholder(p, cap) ==
    ParsedRecord(cap.fname,
                 extract_category_from_path(p),
                 extract_category_path_from_path(p),
                 generate_tags(cap.fname, FileText(p)),
                 PlaceholderPrototype(cap.fname),
                 extract_description(FileText(p)))

\* a header record named after the header file instead of the declaration
HeaderRecordNamedAfterFile(p, cap) ==
    ParsedRecord(FileStem(FileName(p)),
                 extract_category_from_path(p),
                 extract_category_path_from_path(p),
                 generate_tags(cap.fname, FileText(p)),
                 PrototypeLine(cap.whole),
                 extract_description(FileText(p)))

\* the record parse_header_file builds for one captured declaration
HeaderRecord(p, cap) ==
    ParsedRecord(cap.fname,
                 extract_category_from_path(p),
                 extract_category_path_from_path(p),
                 generate_tags(cap.fname, FileText(p)),
                 PrototypeLine(cap.whole),
                 extract_description(FileText(p)))

\* a loop that stops after the first capture (captures for captures_iter)
HeaderLoopFirstOnly(p, caps, i, fns, ord) ==
    IF i > Len(caps) \/ caps[i].fname \in DOMAIN fns THEN << fns, ord >>
    ELSE << Insert(fns, caps[i].fname, HeaderRecord(p, caps[i])),
            PushNew(ord, caps[i].fname) >>

\* a loop that stores every captured declaration, recorded name or not
RECURSIVE HeaderLoopOverwrites(_, _, _, _, _)
HeaderLoopOverwrites(p, caps, i, fns, ord) ==
    IF i > Len(caps) THEN << fns, ord >>
    ELSE HeaderLoopOverwrites(p, caps, i + 1,
                              Insert(fns, caps[i].fname, HeaderRecord(p, caps[i])),
                              PushNew(ord, caps[i].fname))

\* the loop of parse_header_file over the captures from the i-th on: the
\* <<functions, order>> it leaves
RECURSIVE HeaderLoop(_, _, _, _, _)
HeaderLoop(p, caps, i, fns, ord) ==
    IF i > Len(caps) THEN << fns, ord >>
    ELSE IF caps[i].fname \in DOMAIN fns
         THEN HeaderLoop(p, caps, i + 1, fns, ord)
         ELSE HeaderLoop(p, caps, i + 1,
                         Insert(fns, caps[i].fname, HeaderRecord(p, caps[i])),
                         PushNew(ord, caps[i].fname))

(***************************************************************************)
(* discover_categories                                                     *)
(***************************************************************************)
\* the characters of file names, in byte order
AsciiOrder == "-.0123456789ABCDEFGHIJKLMNOPQRSTUVWXYZ_abcdefghijklmnopqrstuvwxyz"

CharCode(c) == CHOOSE i \in 1..Len(AsciiOrder) : CharAt(AsciiOrder, i) = c

\* a < b as Rust compares Strings: byte-wise, a proper prefix first
StrLess(a, b) ==
    \E i \in 0..Len(a) :
        /\ i <= Len(b)
        /\ SubSeq(a, 1, i) = SubSeq(b, 1, i)
        /\ \/ i = Len(a) /\ i < Len(b)
           \/ /\ i < Len(a)
              /\ i < Len(b)
              /\ CharCode(CharAt(a, i + 1)) < CharCode(CharAt(b, i + 1))

\* a sort that leaves the names in descending order
RECURSIVE SortDescending(_)
SortDescending(S) ==
    IF S = {} THEN << >>
    ELSE LET most == CHOOSE x \in S : \A y \in S \ {x} : StrLess(y, x)
         IN  <<most>> \o SortDescending(S \ {most})

\* cats.sort(); cats.dedup() of a vector holding the names S
RECURSIVE SortDedup(_)
SortDedup(S) ==
    IF S = {} THEN << >>
    ELSE LET least == CHOOSE x \in S : \A y \in S \ {x} : StrLess(x, y)
         IN  <<least>> \o SortDedup(S \ {least})

EXCLUDE == {"docs", "doc", "minilibx-linux", "target", "dist", "website", "bin",
            "obj", "build", ".git", ".github", ".idea", ".vscode"}

\* the files of the tree below directory d
FilesUnder(d) == {p \in tree : IsPrefix(d, p) /\ Len(p) > Len(d)}

\* .max_depth(64) of the scan below a candidate category directory
MaxDepth == 64

dir_has_code(d) ==
    \E p \in FilesUnder(d) :
        /\ Len(p) - Len(d) <= MaxDepth
        /\ Extension(FileName(p)) \in {Some("c"), Some("h")}

\* discover_categories when read_dir succeeds
discover_categories ==
    LET src == categories_root
        subdirs == {p[Len(src) + 1] : p \in {f \in FilesUnder(src) : Len(f) >= Len(src) + 2}}
        cats == {name \in subdirs :
                    /\ ~StartsWith(name, ".")
                    /\ name \notin EXCLUDE
                    /\ dir_has_code(src \o <<name>>)}
    IN  IF IsDir(src) THEN SortDedup(cats) ELSE << >>

(***************************************************************************)
(* load_manuals                                                            *)
(***************************************************************************)
\* the candidate directories, in the order they are scanned
Candidates ==
    << categories_root \o <<"docs", "man">>,
       categories_root \o <<"docs", "api">>,
       categories_root \o <<"docs">>,
       <<"docs", "man">>,
       <<"docs", "api">>,
       <<"docs">> >>

FieldOr(given, f, default) == IF f \in DOMAIN given THEN given[f] ELSE default

\* serde_json::from_str::<FunctionMetadata>: name and category are required,
\* every other field has a default
Deserializes(doc) == doc.wellFormed /\ {"name", "category"} \subseteq DOMAIN doc.given

Deserialize(doc) ==
    [name |-> doc.given.name,
     category |-> doc.given.category,
     category_path |-> FieldOr(doc.given, "category_path", ""),
     tags |-> FieldOr(doc.given, "tags", << >>),
     prototype |-> FieldOr(doc.given, "prototype", ""),
     description |-> FieldOr(doc.given, "description", ""),
     parameters |-> FieldOr(doc.given, "parameters", << >>),
     return_value |-> FieldOr(doc.given, "return_value", ""),
     examples |-> FieldOr(doc.given, "examples", << >>),
     complexity |-> FieldOr(doc.given, "complexity", None),
     notes |-> FieldOr(doc.given, "notes", << >>),
     see_also |-> FieldOr(doc.given, "see_also", << >>),
     updated_at |-> FieldOr(doc.given, "updated_at", None),
     author_role |-> FieldOr(doc.given, "author_role", None),
     related |-> FieldOr(doc.given, "related", << >>),
     manual_path |-> FieldOr(doc.given, "manual_path", None),
     manual_html |-> FieldOr(doc.given, "manual_html", None)]

\* markdown::to_html of a one-paragraph document
to_html(md) == "<p>" \o md \o "</p>"

\* the record load_manuals stores for the readable, deserializable JSON file p
LoadedManual(p) ==
    LET meta == Deserialize(JsonDoc(p))
        named == IF IsBlank(meta.name)
                 THEN [meta EXCEPT !.name = FileStem(FileName(p))] ELSE meta
        pathed == IF IsBlank(named.category_path) /\ ~IsBlank(named.category)
                  THEN [named EXCEPT !.category_path = named.category] ELSE named
        topped == IF IsBlank(pathed.category) /\ ~IsBlank(pathed.category_path)
                  THEN [pathed EXCEPT !.category = SplitFirst(pathed.category_path, "/")]
                  ELSE pathed
        man_file == IF topped.manual_path = None THEN << >>
                    ELSE SubSeq(p, 1, Len(p) - 1) \o << topped.manual_path[1] >>
    IN  IF /\ topped.manual_path # None
           /\ man_file \in tree
           /\ man_file \notin unreadable
        THEN [topped EXCEPT !.manual_html = Some(to_html(MdText(man_file)))]
        ELSE topped

\* the record the merge loop of parse stores for an override
MergedManual(meta) ==
    LET pathed == IF IsBlank(meta.category_path)
                  THEN [meta EXCEPT !.category_path = meta.category] ELSE meta
    IN  IF IsBlank(pathed.category)
        THEN [pathed EXCEPT !.category = SplitFirst(pathed.category_path, "/")]
        ELSE pathed

(***************************************************************************)
(* The run: main calls parse, parse walks the tree, loads the manuals and  *)
(* merges them, main writes the catalog.                                   *)
(***************************************************************************)
\* WalkDir yields the files below a directory depth first, the entries of
\* each directory in an order of the file system's choosing: p can follow
\* the files yielded so far when no directory is left before it is finished
WalkCanYield(done, p, files) ==
    /\ p \in files
    /\ p \notin Range(done)
    /\ done # << >> =>
         LET last == done[Len(done)]
         IN  \A j \in 1..(Len(last) - 1) :
                 \/ IsPrefix(SubSeq(last, 1, j), p)
                 \/ {f \in files : IsPrefix(SubSeq(last, 1, j), f)} \subseteq Range(done)

\* ext == "c" && !entry.path().to_string_lossy().contains("main.c")
IsImplementation(p) ==
    /\ Extension(FileName(p)) = Some("c")
    /\ ~Contains(PathString(p), "main.c")

IsHeader(p) == ~IsImplementation(p) /\ Extension(FileName(p)) = Some("h")

Init ==
    /\ root_kind \in {"dir", "missing", "unreadable", "file"}
    /\ tree \in CASE root_kind = "dir" ->
                       {t \in SUBSET PathUniverse : Cardinality(t) <= MaxFiles}
                  [] root_kind = "file" -> {{RootFile}}
                  [] OTHER -> {{}}
    /\ unreadable \in {u \in SUBSET tree : Cardinality(u) <= MaxUnreadable}
    /\ pc = "start"
    /\ categories = << >>
    /\ functions = EmptyMap
    /\ order = << >>
    /\ walked = << >>
    /\ cand = 0
    /\ seen = << >>
    /\ manuals = EmptyMap
    /\ pending = {}
    /\ grouped = EmptyMap
    /\ call = NoCall

\* discover_categories()? fails: read_dir on a directory that cannot be read
DiscoverFail ==
    /\ pc = "start"
    /\ root_kind = "unreadable"
    /\ pc' = "failed"
    /\ UNCHANGED << root_kind, tree, unreadable, categories, functions, order, walked,
                    cand, seen, manuals, pending,
                    call, grouped >>

Discover ==
    /\ pc = "start"
    /\ root_kind # "unreadable"
    /\ categories' = discover_categories
    /\ pc' = "walk"
    /\ UNCHANGED << root_kind, tree, unreadable, functions, order, walked,
                    cand, seen, manuals, pending,
                    call, grouped >>

\* an entry that is neither an implementation file nor a header
WalkSkip(p) ==
    /\ pc = "walk"
    /\ WalkCanYield(walked, p, tree)
    /\ ~IsImplementation(p)
    /\ ~IsHeader(p)
    /\ walked' = Append(walked, p)
    /\ UNCHANGED << root_kind, tree, unreadable, pc, categories, functions, order,
                    cand, seen, manuals, pending,
                    call, grouped >>

\* an implementation file whose base name is recorded already: continue
WalkDuplicate(p) ==
    /\ pc = "walk"
    /\ WalkCanYield(walked, p, tree)
    /\ IsImplementation(p)
    /\ FileStem(FileName(p)) \in DOMAIN functions
    /\ walked' = Append(walked, p)
    /\ UNCHANGED << root_kind, tree, unreadable, pc, categories, functions, order,
                    cand, seen, manuals, pending,
                    call, grouped >>

\* an implementation file parse_c_file fails to read: nothing is recorded
WalkUnreadableC(p) ==
    /\ pc = "walk"
    /\ WalkCanYield(walked, p, tree)
    /\ IsImplementation(p)
    /\ FileStem(FileName(p)) \notin DOMAIN functions
    /\ p \in unreadable
    /\ walked' = Append(walked, p)
    /\ UNCHANGED << root_kind, tree, unreadable, pc, categories, functions, order,
                    cand, seen, manuals, pending,
                    call, grouped >>

\* an implementation file parse_c_file reads: its record is inserted
WalkParseC(p) ==
    /\ pc = "walk"
    /\ WalkCanYield(walked, p, tree)
    /\ IsImplementation(p)
    /\ FileStem(FileName(p)) \notin DOMAIN functions
    /\ p \notin unreadable
    /\ LET meta == parse_c_file(p)
       IN  /\ order' = PushNew(order, meta.name)
           /\ functions' = Insert(functions, meta.name, meta)
    /\ walked' = Append(walked, p)
    /\ UNCHANGED << root_kind, tree, unreadable, pc, categories,
                    cand, seen, manuals, pending,
                    call, grouped >>

\* a header parse_header_file reads
WalkHeader(p) ==
    /\ pc = "walk"
    /\ WalkCanYield(walked, p, tree)
    /\ IsHeader(p)
    /\ p \notin unreadable
    /\ LET left == HeaderLoop(p, HeaderCaptures(FileText(p), 1), 1, functions, order)
       IN  /\ functions' = left[1]
           /\ order' = left[2]
    /\ walked' = Append(walked, p)
    /\ UNCHANGED << root_kind, tree, unreadable, pc, categories,
                    cand, seen, manuals, pending,
                    call, grouped >>

\* a header parse_header_file fails to read: parse_header_file(..)? returns
\* the error from parse
WalkHeaderFail(p) ==
    /\ pc = "walk"
    /\ WalkCanYield(walked, p, tree)
    /\ IsHeader(p)
    /\ p \in unreadable
    /\ walked' = Append(walked, p)
    /\ pc' = "failed"
    /\ UNCHANGED << root_kind, tree, unreadable, categories, functions, order,
                    cand, seen, manuals, pending,
                    call, grouped >>

\* for base in candidates { if !base.is_dir() { continue; } .. }: the index of
\* the next candidate after the c-th that is a directory (past the last when none)
NextDirCandidate(c) ==
    LET dirs == {j \in (c + 1)..Len(Candidates) : IsDir(Candidates[j])}
    IN  IF dirs = {} THEN Len(Candidates) + 1 ELSE Min(dirs)

\* the walk is over: load_manuals starts
WalkEnd ==
    /\ pc = "walk"
    /\ Range(walked) = tree
    /\ pc' = "load"
    /\ cand' = NextDirCandidate(0)
    /\ UNCHANGED << root_kind, tree, unreadable, categories, functions, order, walked,
                    seen, manuals, pending,
                    call, grouped >>

IsJson(p) == Extension(FileName(p)) = Some("json")

\* load_manuals: an entry that is no JSON file, or one that cannot be read
LoadSkip(p) ==
    /\ pc = "load"
    /\ cand <= Len(Candidates)
    /\ WalkCanYield(seen, p, FilesUnder(Candidates[cand]))
    /\ ~IsJson(p) \/ p \in unreadable
    /\ seen' = Append(seen, p)
    /\ UNCHANGED << root_kind, tree, unreadable, pc, categories, functions, order,
                    walked, cand, manuals, pending,
                    call, grouped >>

\* a load step that returns an error for a JSON file that does not deserialize
LoadInvalidAborts(p) ==
    /\ pc = "load"
    /\ cand <= Len(Candidates)
    /\ WalkCanYield(seen, p, FilesUnder(Candidates[cand]))
    /\ IsJson(p)
    /\ p \notin unreadable
    /\ ~Deserializes(JsonDoc(p))
    /\ seen' = Append(seen, p)
    /\ pc' = "failed"
    /\ UNCHANGED << root_kind, tree, unreadable, categories, functions, order,
                    walked, cand, manuals, pending,
                    call, grouped >>

\* load_manuals: a JSON file that does not deserialize is reported and skipped
LoadInvalid(p) ==
    /\ pc = "load"
    /\ cand <= Len(Candidates)
    /\ WalkCanYield(seen, p, FilesUnder(Candidates[cand]))
    /\ IsJson(p)
    /\ p \notin unreadable
    /\ ~Deserializes(JsonDoc(p))
    /\ seen' = Append(seen, p)
    /\ UNCHANGED << root_kind, tree, unreadable, pc, categories, functions, order,
                    walked, cand, manuals, pending,
                    call, grouped >>

\* load_manuals: a JSON file that deserializes is stored under its name
LoadManual(p) ==
    /\ pc = "load"
    /\ cand <= Len(Candidates)
    /\ WalkCanYield(seen, p, FilesUnder(Candidates[cand]))
    /\ IsJson(p)
    /\ p \notin unreadable
    /\ Deserializes(JsonDoc(p))
    /\ manuals' = Insert(manuals, LoadedManual(p).name, LoadedManual(p))
    /\ seen' = Append(seen, p)
    /\ UNCHANGED << root_kind, tree, unreadable, pc, categories, functions, order,
                    walked, cand, pending,
                    call, grouped >>

\* the scan of the current candidate is over: on to the next one
NextCandidate ==
    /\ pc = "load"
    /\ cand <= Len(Candidates)
    /\ Range(seen) = FilesUnder(Candidates[cand])
    /\ cand' = NextDirCandidate(cand)
    /\ seen' = << >>
    /\ UNCHANGED << root_kind, tree, unreadable, pc, categories, functions, order,
                    walked, manuals, pending,
                    call, grouped >>

\* load_manuals returns Ok(out): the merge loop of parse starts
LoadEnd ==
    /\ pc = "load"
    /\ cand > Len(Candidates)
    /\ pending' = DOMAIN manuals
    /\ pc' = "merge"
    /\ UNCHANGED << root_kind, tree, unreadable, categories, functions, order,
                    walked, cand, seen, manuals,
                    call, grouped >>

\* one turn of for (name, mut meta) in manuals; a HashMap yields its entries
\* in an order of its own
ApplyManual(name) ==
    /\ pc = "merge"
    /\ name \in pending
    /\ order' = PushNew(order, name)
    /\ functions' = Insert(functions, name, MergedManual(manuals[name]))
    /\ pending' = pending \ {name}
    /\ UNCHANGED << root_kind, tree, unreadable, pc, categories,
                    walked, cand, seen, manuals,
                    call, grouped >>

\* parse returns Ok(LibraryMetadata { categories, functions, order, .. })
Return ==
    /\ pc = "merge"
    /\ pending = {}
    /\ pc' = "returned"
    /\ UNCHANGED << root_kind, tree, unreadable, categories, functions, order,
                    walked, cand, seen, manuals, pending,
                    call, grouped >>

(***************************************************************************)
(* group_functions_by_path                                                 *)
(***************************************************************************)
\* the key a record is grouped under
GroupKey(f) == IF IsBlank(f.category_path) THEN f.category ELSE f.category_path

\* order_map.get(name).copied().unwrap_or(usize::MAX): the index of name in
\* ord (the last one, were it there twice), and for a name that is not there
\* usize::MAX, which Len(ord) stands for: it is above every index
OrderPos(ord, name) ==
    IF InSeq(name, ord) THEN Max({i \in 1..Len(ord) : ord[i] = name}) - 1
    ELSE Len(ord)

\* a sort key that leaves the position in ord out
SortsBeforeByName(ord, a, b) == StrLess(a.name, b.name)

\* (pos, name) of record a sorts before that of record b
SortsBefore(ord, a, b) ==
    \/ OrderPos(ord, a.name) < OrderPos(ord, b.name)
    \/ /\ OrderPos(ord, a.name) = OrderPos(ord, b.name)
       /\ StrLess(a.name, b.name)

\* v.sort_by_key(|f| (pos, f.name)) of the records stored under keys
RECURSIVE SortByOrder(_, _, _)
SortByOrder(keys, fns, ord) ==
    IF keys = {} THEN << >>
    ELSE LET first == CHOOSE k \in keys :
                          \A j \in keys : ~SortsBefore(ord, fns[j], fns[k])
         IN  <<fns[first]>> \o SortByOrder(keys \ {first}, fns, ord)

group_functions_by_path(fns, ord) ==
    [path \in {GroupKey(fns[k]) : k \in DOMAIN fns} |->
        SortByOrder({k \in DOMAIN fns : GroupKey(fns[k]) = path}, fns, ord)]

\* main writes metadata.json, and index.html from the catalog grouped by path
MainWrite ==
    /\ pc = "returned"
    /\ grouped' = group_functions_by_path(functions, order)
    /\ pc' = "written"
    /\ UNCHANGED << root_kind, tree, unreadable, categories, functions, order,
                    walked, cand, seen, manuals, pending, call >>

Next ==
    \/ DiscoverFail
    \/ Discover
    \/ \E p \in tree : WalkSkip(p)
    \/ \E p \in tree : WalkDuplicate(p)
    \/ \E p \in tree : WalkUnreadableC(p)
    \/ \E p \in tree : WalkParseC(p)
    \/ \E p \in tree : WalkHeader(p)
    \/ \E p \in tree : WalkHeaderFail(p)
    \/ WalkEnd
    \/ \E p \in tree : LoadSkip(p)
    \/ \E p \in tree : LoadInvalid(p)
    \/ \E p \in tree : LoadManual(p)
    \/ NextCandidate
    \/ LoadEnd
    \/ \E name \in pending : ApplyManual(name)
    \/ Return
    \/ MainWrite

Spec == Init /\ [][Next]_vars

(***************************************************************************)
(* The library's parser (parser.rs): LibftParser::parse walks the          *)
(* implementation files only and returns the catalog.                      *)
(***************************************************************************)
\* generate_tags of parser.rs
lib_generate_tags(func_name, content) ==
    LET tags ==
            Tag(StartsWith(func_name, "ft_str"), "string")
         \o Tag(StartsWith(func_name, "ft_mem"), "memory")
         \o Tag(StartsWith(func_name, "ft_is"), "validation")
         \o Tag(StartsWith(func_name, "ft_to"), "conversion")
         \o Tag(Contains(func_name, "printf"), "output")
         \o Tag(Contains(func_name, "scanf"), "input")
         \o Tag(Contains(func_name, "list"), "linked_list")
         \o Tag(Contains(func_name, "queue"), "queue")
         \o Tag(Contains(func_name, "vector"), "vector")
         \o Tag(Contains(func_name, "matrix"), "matrix")
         \o Tag(Contains(func_name, "sort"), "sorting")
         \o Tag(Contains(func_name, "search"), "searching")
         \o Tag(Contains(func_name, "map"), "data_structure")
         \o Tag(Contains(func_name, "window"), "graphics")
         \o Tag(Contains(func_name, "render"), "rendering")
         \o Tag(Contains(func_name, "pool") \/ Contains(func_name, "arena")
                    \/ Contains(func_name, "slab"), "memory_management")
         \o Tag(Contains(content, "malloc"), "allocation")
         \o Tag(Contains(content, "free"), "cleanup")
         \o Tag(Contains(content, "while") \/ Contains(content, "for"), "iteration")
         \o Tag(Contains(content, "recursive") \/ Contains(content, "recursion"),
                "recursion")
         \o Tag(Contains(content, "mlx_"), "minilibx")
         \o Tag(Contains(content, "pthread"), "threading")
    IN  IF InSeq("recursion", tags) \/ InSeq("threading", tags)
        THEN Append(tags, "advanced")
        ELSE IF InSeq("allocation", tags) \/ InSeq("data_structure", tags)
             THEN Append(tags, "intermediate")
             ELSE Append(tags, "basic")

\* parse_c_file of parser.rs on a readable file: Ok(Some(metadata))
lib_parse_c_file(p) ==
    LET content == FileText(p)
        filename == FileStem(FileName(p))
    IN  ParsedRecord(filename,
                     extract_category_from_path(p),
                     extract_category_path_from_path(p),
                     lib_generate_tags(filename, content),
                     extract_function_prototype(content, filename),
                     extract_description(content))

\* discover_categories()? fails: read_dir on a directory that cannot be read
LibDiscoverFail ==
    /\ pc = "start"
    /\ root_kind = "unreadable"
    /\ pc' = "failed"
    /\ UNCHANGED << root_kind, tree, unreadable, categories, functions, order, walked,
                    cand, seen, manuals, pending,
                    call, grouped >>

LibDiscover ==
    /\ pc = "start"
    /\ root_kind # "unreadable"
    /\ categories' = discover_categories
    /\ pc' = "walk"
    /\ UNCHANGED << root_kind, tree, unreadable, functions, order, walked,
                    cand, seen, manuals, pending,
                    call, grouped >>

\* an entry that is no implementation file: headers and documents included
LibWalkSkip(p) ==
    /\ pc = "walk"
    /\ WalkCanYield(walked, p, tree)
    /\ ~IsImplementation(p)
    /\ walked' = Append(walked, p)
    /\ UNCHANGED << root_kind, tree, unreadable, pc, categories, functions, order,
                    cand, seen, manuals, pending,
                    call, grouped >>

\* an implementation file whose base name is recorded already: continue
LibWalkDuplicate(p) ==
    /\ pc = "walk"
    /\ WalkCanYield(walked, p, tree)
    /\ IsImplementation(p)
    /\ FileStem(FileName(p)) \in DOMAIN functions
    /\ walked' = Append(walked, p)
    /\ UNCHANGED << root_kind, tree, unreadable, pc, categories, functions, order,
                    cand, seen, manuals, pending,
                    call, grouped >>

\* an implementation file parse_c_file fails to read: nothing is recorded
LibWalkUnreadableC(p) ==
    /\ pc = "walk"
    /\ WalkCanYield(walked, p, tree)
    /\ IsImplementation(p)
    /\ FileStem(FileName(p)) \notin DOMAIN functions
    /\ p \in unreadable
    /\ walked' = Append(walked, p)
    /\ UNCHANGED << root_kind, tree, unreadable, pc, categories, functions, order,
                    cand, seen, manuals, pending,
                    call, grouped >>

\* an implementation file parse_c_file reads: its record is inserted, and
\* nothing else is kept of the discovery
LibWalkParseC(p) ==
    /\ pc = "walk"
    /\ WalkCanYield(walked, p, tree)
    /\ IsImplementation(p)
    /\ FileStem(FileName(p)) \notin DOMAIN functions
    /\ p \notin unreadable
    /\ LET meta == lib_parse_c_file(p)
       IN  functions' = Insert(functions, meta.name, meta)
    /\ walked' = Append(walked, p)
    /\ UNCHANGED << root_kind, tree, unreadable, pc, categories, order,
                    cand, seen, manuals, pending,
                    call, grouped >>

\* parse returns Ok(LibraryMetadata { categories, functions, order: Vec::new() })
LibReturn ==
    /\ pc = "walk"
    /\ Range(walked) = tree
    /\ order' = << >>
    /\ pc' = "returned"
    /\ UNCHANGED << root_kind, tree, unreadable, categories, functions,
                    walked, cand, seen, manuals, pending,
                    call, grouped >>

LibNext ==
    \/ LibDiscoverFail
    \/ LibDiscover
    \/ \E p \in tree : LibWalkSkip(p)
    \/ \E p \in tree : LibWalkDuplicate(p)
    \/ \E p \in tree : LibWalkUnreadableC(p)
    \/ \E p \in tree : LibWalkParseC(p)
    \/ LibReturn

LibSpec == Init /\ [][LibNext]_vars

(***************************************************************************)
(* The extraction functions on their own: one call of generate_tags (of    *)
(* generator.rs or of parser.rs), extract_function_prototype or            *)
(* extract_description on a function name and a file content.              *)
(***************************************************************************)
\* the function names of the calls
FuncNames ==
    {"ft_strlen", "ft_memset", "ft_isalpha", "ft_tolower", "ft_printf", "ft_sscanf",
     "ft_list_sort", "ft_queue_search", "ft_vector_map", "ft_matrix_render",
     "ft_window_pool", "ft_arena_slab", "ft_push", "ft_a", "ft_b", "main"}

\* the file contents of the calls
Contents ==
    {"/* Computes string length. */\nsize_t ft_strlen(const char *s) {\n  while (s[i]) i++;\n}",
     "// libft API\nsize_t ft_strlen(const char *s);\nvoid ft_push(int x);",
     "/** Pushes a value onto the stack. */\nvoid ft_push(t_stack *s, int x)\n{\n  n = malloc(sizeof(*n));\n}",
     "int main(void) {\n  return (0);\n}",
     "return ft_strlen(s) + 1;",
     "int x;",
     "/*\n * line one\n * line two\n */\nint ft_a(int);\nint ft_b(int) {\n}",
     "/**\n   short\n */\n// a much longer line comment here\nint xft_a(void) {\n  ft_a (1);\n}",
     "/***/ /* ** starred text here ** */ int ft_a(void)\n\n{ ft_a(2); }",
     "http://x.y/ft_a(1) {\nint ft_a(void) { if (ft_a(3)) { } }",
     "\n\n  static int *ft_a (int (*f)(int)) ;\nint ft_b(int a;\nint ft_c(void) {;\n  int ft_(void);",
     "ft_a",
     "/* **************************************** */\n/*   By: someone :::      ::::::::   */\n// 1234567890\n",
     "/** tiny */ /* 12345678901 */ // a line comment",
     "// 12345678901",
     "/* ééééé */\nint ft_a(void);",
     "/* éééééé */\nint ft_b(void) {\n}",
     "/* frees the list, recursive */\nvoid ft_a(t_list *l) {\n  free(l);\n  ft_a(l->next);\n}",
     "void *ft_b(void *p) {\n  pthread_mutex_lock(&m);\n  p = malloc(8);\n  for (;;) mlx_loop(p);\n}",
     ""}

\* a call that has not been made yet
Uncalled(func_name, content) ==
    [fn |-> "none", func_name |-> func_name, content |-> content]

FnInit ==
    /\ call \in {Uncalled(n, c) : n \in FuncNames, c \in Contents}
    /\ root_kind = "missing"
    /\ tree = {}
    /\ unreadable = {}
    /\ pc = "start"
    /\ categories = << >>
    /\ functions = EmptyMap
    /\ order = << >>
    /\ walked = << >>
    /\ cand = 0
    /\ seen = << >>
    /\ manuals = EmptyMap
    /\ pending = {}
    /\ grouped = EmptyMap

\* self.generate_tags(filename, &content) of generator.rs
CallGenerateTags ==
    /\ call.fn = "none"
    /\ call' = [fn |-> "generate_tags", func_name |-> call.func_name,
                content |-> call.content,
                result |-> generate_tags(call.func_name, call.content)]
    /\ UNCHANGED << root_kind, tree, unreadable, pc, categories, functions, order,
                    walked, cand, seen, manuals, pending, grouped >>

\* self.generate_tags(filename, &content) of parser.rs
CallLibGenerateTags ==
    /\ call.fn = "none"
    /\ call' = [fn |-> "lib_generate_tags", func_name |-> call.func_name,
                content |-> call.content,
                result |-> lib_generate_tags(call.func_name, call.content)]
    /\ UNCHANGED << root_kind, tree, unreadable, pc, categories, functions, order,
                    walked, cand, seen, manuals, pending, grouped >>

\* self.extract_function_prototype(&content, filename)?
CallExtractPrototype ==
    /\ call.fn = "none"
    /\ call' = [fn |-> "extract_function_prototype", func_name |-> call.func_name,
                content |-> call.content,
                result |-> extract_function_prototype(call.content, call.func_name)]
    /\ UNCHANGED << root_kind, tree, unreadable, pc, categories, functions, order,
                    walked, cand, seen, manuals, pending, grouped >>

\* self.extract_description(&content)
CallExtractDescription ==
    /\ call.fn = "none"
    /\ call' = [fn |-> "extract_description", func_name |-> call.func_name,
                content |-> call.content,
                result |-> extract_description(call.content)]
    /\ UNCHANGED << root_kind, tree, unreadable, pc, categories, functions, order,
                    walked, cand, seen, manuals, pending, grouped >>

FnNext ==
    \/ CallGenerateTags
    \/ CallLibGenerateTags
    \/ CallExtractPrototype
    \/ CallExtractDescription

FnSpec == FnInit /\ [][FnNext]_vars

(***************************************************************************)
(* Properties                                                              *)
(***************************************************************************)
\* parse has returned Ok(catalog)
Returned == pc \in {"returned", "written"}

NoRepeats(seq) == \A i, j \in 1..Len(seq) : seq[i] = seq[j] => i = j

\* the implementation files of the tree whose base name is name
ImplementationsOf(name) ==
    {p \in tree : IsImplementation(p) /\ FileStem(FileName(p)) = name}

\* the declarations of name in the headers of the tree
DeclarationsOf(name) ==
    UNION {{<<h, cap>> : cap \in {c \in Range(HeaderCaptures(FileText(h), 1)) : c.fname = name}}
           : h \in {f \in tree : IsHeader(f)}}

\* every name some header of the tree declares
DeclaredNames ==
    UNION {{cap.fname : cap \in Range(HeaderCaptures(FileText(h), 1))}
           : h \in {f \in tree : IsHeader(f)}}

\* C1: at every step of parse and in the returned catalog, order holds no
\* name twice and the names in order are exactly the keys of functions.
C1_OrderIsTheKeySet ==
    /\ NoRepeats(order)
    /\ Range(order) = DOMAIN functions

\* C1 witness: a returned catalog of three functions, one of them entered or
\* replaced by a manual override
C1_Witness ==
    /\ Returned
    /\ Len(order) = 3
    /\ manuals # EmptyMap
    /\ \E p \in tree : IsHeader(p)
    /\ \E p \in tree : IsImplementation(p)

\* C2: order is append-only: every step leaves the previous order as a
\* prefix of the new one, so no name's index ever changes.
C2_OrderAppendOnly == [][IsPrefix(order, order')]_vars

\* C2 witness: the merge loop has applied an override for a name that an
\* implementation file had put first in order, in a catalog of two or more
C2_Witness ==
    /\ pc = "merge"
    /\ Len(order) >= 2
    /\ order[1] \in DOMAIN manuals
    /\ order[1] \notin pending
    /\ functions[order[1]] = MergedManual(manuals[order[1]])
    /\ \E p \in Range(walked) : p \in ImplementationsOf(order[1]) /\ p \notin unreadable

\* C3: a name with a readable implementation file and a header declaration
\* in the tree, and no manual override, has an implementation-derived
\* record in the returned catalog, whatever the order of the walk.
C3_ImplementationBeatsDeclaration ==
    Returned =>
        \A name \in DOMAIN functions :
            ( /\ name \notin DOMAIN manuals
              /\ DeclarationsOf(name) # {}
              /\ ImplementationsOf(name) \ unreadable # {} )
            => \E p \in ImplementationsOf(name) \ unreadable :
                   functions[name] = parse_c_file(p)

\* C4: the returned record of every name of the override map is the
\* override record as the merge loop normalises it, whole.
C4_OverrideReplacesWhole ==
    Returned =>
        \A name \in DOMAIN manuals :
            /\ name \in DOMAIN functions
            /\ functions[name] = MergedManual(manuals[name])

\* C4 witness: a returned catalog with an override for a name that a header
\* declares and a readable implementation file implements
C4_Witness ==
    /\ Returned
    /\ \E name \in DOMAIN manuals :
           /\ DeclarationsOf(name) # {}
           /\ ImplementationsOf(name) \ unreadable # {}

\* C5: every record of the returned catalog has a non-empty category.
C5_CategoryNonEmpty ==
    Returned => \A name \in DOMAIN functions : functions[name].category # ""

\* C6: for every record of the returned catalog, the first '/'-separated
\* segment of a non-empty category_path is the category, and the category
\* is non-empty when category_path is empty.
C6_CategoryIsFirstSegment ==
    Returned =>
        \A name \in DOMAIN functions :
            LET r == functions[name]
            IN  IF r.category_path # ""
                THEN SplitFirst(r.category_path, "/") = r.category
                ELSE r.category # ""

\* C7: every name a header of the tree declares that has no implementation
\* file in the tree is a key of the returned functions and is in order.
C7_DeclaredNamesSurface ==
    Returned =>
        \A name \in DeclaredNames :
            ImplementationsOf(name) = {} =>
                name \in DOMAIN functions /\ InSeq(name, order)

\* C7 witness: a returned catalog for a tree with a header that declares two
\* names neither of which has an implementation file
C7_Witness ==
    /\ Returned
    /\ \E n1, n2 \in DeclaredNames :
           /\ n1 # n2
           /\ ImplementationsOf(n1) = {}
           /\ ImplementationsOf(n2) = {}
           /\ \E h \in tree :
                  {n1, n2} \subseteq {cap.fname : cap \in Range(HeaderCaptures(FileText(h), 1))}

\* the names a header declares that no implementation file and no override covers
DeclaredOnly ==
    {name \in DeclaredNames : ImplementationsOf(name) = {} /\ name \notin DOMAIN manuals}

\* C8 as claimed: a function that is declared in a header and has neither an
\* implementation file nor an override has the placeholder prototype naming
\* the function in the returned catalog.
C8_DeclaredOnlyHasPlaceholder ==
    Returned =>
        \A name \in DeclaredOnly :
            functions[name].prototype = PlaceholderPrototype(name)

\* C8 as amended: such a function has the text of one of its declarations as
\* prototype: the matched declaration, trimmed, without its final semicolons.
C8_DeclaredOnlyHasDeclarationText ==
    Returned =>
        \A name \in DeclaredOnly :
            /\ functions[name].prototype
                   \in {PrototypeLine(hc[2].whole) : hc \in DeclarationsOf(name)}
            /\ functions[name].prototype # PlaceholderPrototype(name)

\* C8 witness: a returned catalog holding a function known from a header only
C8_Witness ==
    /\ Returned
    /\ DeclaredOnly # {}

\* C9: a read failure on a file below a readable root never makes parse
\* return an error.
C9_ReadFailureIsNotFatal ==
    (root_kind = "dir" /\ unreadable # {}) => pc # "failed"

\* C10: when the source path does not exist, is no directory or cannot be
\* read, parse returns no catalog and none is written.
C10_InvalidRootAborts ==
    root_kind # "dir" => ~Returned

\* the override documents load_manuals reads: the readable JSON files below
\* a candidate directory
ManualFiles ==
    {p \in tree : /\ IsJson(p)
                  /\ p \notin unreadable
                  /\ \E c \in 1..Len(Candidates) :
                         IsDir(Candidates[c]) /\ p \in FilesUnder(Candidates[c])}

\* the override documents that deserialize
LoadableFiles == {p \in ManualFiles : Deserializes(JsonDoc(p))}

\* load_manuals has returned
Loaded == pc \in {"merge", "returned", "written"}

\* C11: reading a JSON file that does not deserialize leaves the override
\* map as it was and load_manuals running, and the override map load_manuals
\* returns is made of the records of the documents that deserialize alone:
\* its keys are their names and each entry is the record of one of them.
C11_MalformedRecordSkipped ==
    /\ [][\A p \in tree :
              ( /\ pc = "load"
                /\ seen' = Append(seen, p)
                /\ IsJson(p)
                /\ p \notin unreadable
                /\ ~Deserializes(JsonDoc(p)) )
              => (pc' = "load" /\ manuals' = manuals)]_vars
    /\ [](Loaded =>
            /\ DOMAIN manuals = {LoadedManual(p).name : p \in LoadableFiles}
            /\ \A name \in DOMAIN manuals :
                   manuals[name] \in {LoadedManual(p) : p \in LoadableFiles})

\* C11 witness: load_manuals has returned a non-empty override map from a
\* tree that holds a readable JSON file that does not deserialize
C11_Witness ==
    /\ Loaded
    /\ manuals # EmptyMap
    /\ \E p \in ManualFiles : ~JsonDoc(p).wellFormed

\* field f of a JSON document's keys has a value that is not blank
Gives(given, f) == f \in DOMAIN given /\ ~IsBlank(given[f])

\* the key load_manuals stores a document under: the name its content
\* gives, or the base name of its file when that is absent or blank
KeyOf(p) ==
    IF Gives(JsonDoc(p).given, "name") THEN JsonDoc(p).given.name
    ELSE FileStem(FileName(p))

\* load_manuals reads the JSON document p in this step
Reads(p) ==
    /\ pc = "load"
    /\ seen' = Append(seen, p)
    /\ IsJson(p)
    /\ p \notin unreadable

\* C12: when load_manuals reads a well-formed document that gives a name
\* and only one of the two category fields, the document is loaded: one
\* that gives only category is stored with category_path equal to it, and
\* one that gives only category_path is stored with category equal to the
\* first '/'-separated segment of that path.
C12_EitherCategoryFieldSuffices ==
    [][\A p \in tree :
          (Reads(p) /\ JsonDoc(p).wellFormed /\ "name" \in DOMAIN JsonDoc(p).given)
          => LET given == JsonDoc(p).given
             IN  /\ (Gives(given, "category") /\ ~Gives(given, "category_path"))
                    => /\ KeyOf(p) \in DOMAIN manuals'
                       /\ manuals'[KeyOf(p)].category_path = given.category
                 /\ (Gives(given, "category_path") /\ ~Gives(given, "category"))
                    => /\ KeyOf(p) \in DOMAIN manuals'
                       /\ manuals'[KeyOf(p)].category
                              = SplitFirst(given.category_path, "/")]_vars

\* C13: when load_manuals reads a document that deserializes, the override
\* map holds that document's record under its name afterwards, whole,
\* whatever was stored under the name before, and every other entry is as
\* it was.
C13_LaterDocumentWins ==
    [][\A p \in tree :
          (Reads(p) /\ Deserializes(JsonDoc(p)))
          => manuals' = [k \in DOMAIN manuals \cup {KeyOf(p)} |->
                            IF k = KeyOf(p) THEN LoadedManual(p) ELSE manuals[k]]]_vars

\* C13 witness: two documents with different records name the same
\* function; the one of an earlier candidate directory has been loaded, the
\* other has been loaded after it and its record is the one in the map
C13_Witness ==
    /\ pc = "load"
    /\ \E p, q \in LoadableFiles :
           /\ KeyOf(p) = KeyOf(q)
           /\ LoadedManual(p) # LoadedManual(q)
           /\ LoadedManual(p).prototype # LoadedManual(q).prototype
           /\ \E c \in 1..(cand - 1) : p \in FilesUnder(Candidates[c])
           /\ q \in Range(seen)
           /\ KeyOf(q) \in DOMAIN manuals
           /\ manuals[KeyOf(q)] = LoadedManual(q)

\* C14: every record of the returned catalog has a non-empty prototype, a
\* non-empty description and a non-empty return-value description.
C14_RecordsComplete ==
    Returned =>
        \A name \in DOMAIN functions :
            /\ functions[name].prototype # ""
            /\ functions[name].description # ""
            /\ functions[name].return_value # ""

\* the tags that mark recursion or threading, and those that mark allocation
\* or a data structure
AdvancedMarkers == {"recursion", "threading"}
IntermediateMarkers == {"allocation", "data_structure"}

\* C15: every record of the returned catalog whose tags hold a recursion or
\* threading marker holds the tag "advanced", and every record whose tags
\* hold none of the recursion, threading, allocation and data-structure
\* markers holds the tag "basic".
C15_DifficultyFollowsMarkers ==
    Returned =>
        \A name \in DOMAIN functions :
            LET tags == Range(functions[name].tags)
            IN  /\ tags \cap AdvancedMarkers # {} => "advanced" \in tags
                /\ tags \cap (AdvancedMarkers \cup IntermediateMarkers) = {}
                       => "basic" \in tags

\* the place in the walk of the implementation file that recorded name
FirstWalked(name) ==
    Min({k \in 1..Len(walked) : /\ IsImplementation(walked[k])
                                /\ walked[k] \notin unreadable
                                /\ FileStem(FileName(walked[k])) = name})

\* C16: in the catalog the library's parse returns, every key of functions
\* is in order exactly once, order holds nothing else, and the names stand
\* in order as the walk first discovered them.
C16_LibraryOrderPopulated ==
    pc = "returned" =>
        /\ NoRepeats(order)
        /\ Range(order) = DOMAIN functions
        /\ \A i, j \in 1..Len(order) :
               i < j => FirstWalked(order[i]) < FirstWalked(order[j])

\* C17: when load_manuals reads a well-formed document, the document is
\* loaded whatever fields it leaves out: the override map holds a record
\* under the name its content gives, or under the base name of its file
\* when the content gives no name, and the record carries that name.
C17_SparseOverrideLoaded ==
    [][\A p \in tree :
          (Reads(p) /\ JsonDoc(p).wellFormed)
          => /\ KeyOf(p) \in DOMAIN manuals'
             /\ manuals'[KeyOf(p)].name = KeyOf(p)]_vars

\* the root discover_categories scans: the libft subdirectory of the source
\* directory when the tree has one, else the source directory
ResolvedRoot ==
    IF \E p \in tree : Len(p) >= 2 /\ p[1] = "libft" THEN <<"libft">> ELSE << >>

\* the names of the immediate subdirectories of the resolved root
Subdirectories ==
    {p[Len(ResolvedRoot) + 1] :
        p \in {f \in tree : IsPrefix(ResolvedRoot, f) /\ Len(f) >= Len(ResolvedRoot) + 2}}

\* directory name of the resolved root holds a .c or .h file at some depth
HoldsCode(name) ==
    \E f \in tree :
        /\ IsPrefix(ResolvedRoot \o <<name>>, f)
        /\ Len(f) > Len(ResolvedRoot) + 1
        /\ \E stem \in {SubSeq(FileName(f), 1, Len(FileName(f)) - 2)} :
               stem # "" /\ FileName(f) \in {stem \o ".c", stem \o ".h"}

\* C18: once discover_categories has returned, categories is strictly
\* ascending in byte order (so it holds no repeats), and its names are
\* exactly the immediate subdirectories of the resolved root that do not
\* start with '.', are not in the exclusion list and hold a .c or .h file
\* somewhere below them.
C18_CategoriesSortedAndExact ==
    pc \notin {"start", "failed"} =>
        /\ \A i, j \in 1..Len(categories) :
               i < j => StrLess(categories[i], categories[j])
        /\ Range(categories)
               = {name \in Subdirectories :
                     /\ SubSeq(name, 1, 1) # "."
                     /\ name \notin EXCLUDE
                     /\ HoldsCode(name)}

\* C18 witness: discover_categories has returned two or more categories
\* for a tree whose resolved root also has a subdirectory that is none
C18_Witness ==
    /\ pc \notin {"start", "failed"}
    /\ Len(categories) >= 2
    /\ Subdirectories \ Range(categories) # {}

\* the record of name comes from a header declaration
HeaderDerived(name) ==
    \E hc \in DeclarationsOf(name) : functions[name] = HeaderRecord(hc[1], hc[2])

\* C19: parse runs its phases one after the other: a header is parsed only
\* once every implementation file of the tree has been processed, a
\* header-derived record exists only for a name no readable implementation
\* file covers, and overrides are loaded only once every file of the tree
\* has been processed.
C19_PhasesInOrder ==
    /\ \A i \in 1..Len(walked) :
           IsHeader(walked[i]) =>
               \A p \in tree :
                   IsImplementation(p) => \E j \in 1..(i - 1) : walked[j] = p
    /\ \A name \in DOMAIN functions :
           (pc = "walk" /\ HeaderDerived(name))
               => ImplementationsOf(name) \ unreadable = {}
    /\ (pc = "load" \/ Loaded) => Range(walked) = tree

\* the names header p declares
NamesIn(p) == {cap.fname : cap \in Range(HeaderCaptures(FileText(p), 1))}

NonEntryImplementation(p) ==
    /\ Len(FileName(p)) > 2
    /\ SubSeq(FileName(p), Len(FileName(p)) - 1, Len(FileName(p))) = ".c"
    /\ FileName(p) # "main.c"

\* C21: in the returned catalog every readable .c file of the tree whose
\* own name is not main.c has a record under its base name, whatever else
\* its name or its directory path contains, and the file main.c has put no
\* record there.
C21_OnlyEntryPointSkipped ==
    Returned =>
        /\ \A p \in tree \ unreadable :
               NonEntryImplementation(p) =>
                   FileStem(FileName(p)) \in DOMAIN functions
        /\ "main" \in DOMAIN functions
               => \/ "main" \in DOMAIN manuals
                  \/ "main" \in DeclaredNames

\* a call of either generate_tags has returned
TagsReturned == call.fn \in {"generate_tags", "lib_generate_tags"}

DifficultyLabels == {"basic", "intermediate", "advanced"}

\* the difficulty label the rule of the spec gives a name and a content
DifficultyOf(func_name, content) ==
    IF \/ Contains(content, "recursive")
       \/ Contains(content, "recursion")
       \/ Contains(content, "pthread")
    THEN "advanced"
    ELSE IF Contains(content, "malloc") \/ Contains(func_name, "map")
         THEN "intermediate"
         ELSE "basic"

\* C22: the result of generate_tags, of the generator and of the library
\* parser alike, ends with the difficulty label the content and the name
\* call for and holds no difficulty label before it; a result that ends
\* with "advanced" holds the recursion or the threading tag.
C22_OneDifficultyLabel ==
    TagsReturned =>
        LET tags == call.result
        IN  /\ tags # << >>
            /\ tags[Len(tags)] = DifficultyOf(call.func_name, call.content)
            /\ \A i \in 1..(Len(tags) - 1) : tags[i] \notin DifficultyLabels
            /\ tags[Len(tags)] = "advanced"
                   => (InSeq("recursion", tags) \/ InSeq("threading", tags))

\* C23: the result of generate_tags, of the generator and of the library
\* parser alike, holds no tag twice.
C23_NoTagTwice ==
    TagsReturned => NoRepeats(call.result)

\* C23 witness: the library parser's generate_tags has returned six tags or
\* more, from name rules and from content rules
C23_Witness ==
    /\ call.fn = "lib_generate_tags"
    /\ Len(call.result) >= 6
    /\ InSeq("threading", call.result)
    /\ InSeq("memory_management", call.result)

\* the trimmed match of the i-th prototype pattern, None when the pattern
\* does not match
PatternResult(content, func_name, i) ==
    LET m == CASE i = 1 -> FindDefinition(content, func_name)
               [] i = 2 -> FindDeclaration(content, func_name)
               [] OTHER -> FindLoose(content, func_name)
    IN  IF m = None THEN None ELSE Some(TrimPrototype(m[1]))

\* the i-th pattern matches and its trimmed match is longer than the name
Qualifies(content, func_name, i) ==
    /\ PatternResult(content, func_name, i) # None
    /\ ByteLen(PatternResult(content, func_name, i)[1]) > ByteLen(func_name)

\* C24: extract_function_prototype returns the trimmed match of the first
\* of its three patterns, in order, whose trimmed match is longer than the
\* function name, and the placeholder naming the function when no pattern
\* qualifies; what it returns is neither empty nor the bare name.
C24_FirstQualifyingPattern ==
    call.fn = "extract_function_prototype" =>
        /\ \A i \in 1..3 :
               ( /\ Qualifies(call.content, call.func_name, i)
                 /\ \A j \in 1..(i - 1) : ~Qualifies(call.content, call.func_name, j) )
               => call.result = PatternResult(call.content, call.func_name, i)[1]
        /\ (\A i \in 1..3 : ~Qualifies(call.content, call.func_name, i))
               => call.result = PlaceholderPrototype(call.func_name)
        /\ call.result # ""
        /\ call.result # call.func_name

\* C24 witness: a call whose first pattern does not match and whose second
\* and third patterns match with different texts has returned
C24_Witness ==
    /\ call.fn = "extract_function_prototype"
    /\ PatternResult(call.content, call.func_name, 1) = None
    /\ Qualifies(call.content, call.func_name, 2)
    /\ Qualifies(call.content, call.func_name, 3)
    /\ PatternResult(call.content, call.func_name, 2)
           # PatternResult(call.content, call.func_name, 3)

\* the cleaned capture of the i-th comment pattern, None when the pattern
\* does not match
CommentResult(content, i) ==
    LET m == CASE i = 1 -> FindBlockComment(content, "/**")
               [] i = 2 -> FindBlockComment(content, "/*")
               [] OTHER -> FindLineComment(content)
    IN  IF m = None THEN None ELSE Some(CleanComment(m[1]))

\* the i-th comment pattern matches and its cleaned capture has more than
\* 10 characters
OverTenCharacters(content, i) ==
    /\ CommentResult(content, i) # None
    /\ Len(CommentResult(content, i)[1]) > 10

\* C25: extract_description returns the cleaned text of the first of its
\* three comment patterns, in order, whose cleaned text has more than 10
\* characters, a cleaned text of 10 characters or fewer falling through to
\* the next pattern, and the fixed placeholder when no pattern qualifies;
\* what it returns is never empty.
C25_FirstCommentOverTenCharacters ==
    call.fn = "extract_description" =>
        /\ \A i \in 1..3 :
               ( /\ OverTenCharacters(call.content, i)
                 /\ \A j \in 1..(i - 1) : ~OverTenCharacters(call.content, j) )
               => call.result = CommentResult(call.content, i)[1]
        /\ (\A i \in 1..3 : ~OverTenCharacters(call.content, i))
               => call.result = NoDescription
        /\ call.result # ""

\* C26: the category of every record of the returned catalog is a member
\* of the catalog's categories.
C26_CategoryIsListed ==
    Returned =>
        \A name \in DOMAIN functions :
            functions[name].category \in Range(categories)

\* the orders the next turn of the merge loop can leave
NextOrders == {PushNew(order, name) : name \in pending}

\* C27: the order parse builds is determined by the tree and by the
\* sequence in which the walks yield its files: from no state of the merge
\* loop can the next turn leave two different orders.
C27_OrderDetermined ==
    pc = "merge" => Cardinality(NextOrders) <= 1

\* the places of record f in the group stored under path
PlacesIn(path, f) == {i \in 1..Len(grouped[path]) : grouped[path][i] = f}

\* the index of name in order, when it is there
IndexIn(name) == CHOOSE i \in 1..Len(order) : order[i] = name

\* in a group, record a may stand before record b
MayPrecede(a, b) ==
    IF InSeq(a.name, order)
    THEN InSeq(b.name, order) => IndexIn(a.name) < IndexIn(b.name)
    ELSE ~InSeq(b.name, order) /\ StrLess(a.name, b.name)

\* C28: the groups main renders partition the catalog: every record of
\* functions stands exactly once in the group keyed by its category_path
\* (by its category when category_path is blank) and in no other group,
\* the groups hold nothing else, and in each group the records stand by
\* ascending index in order, those absent from order last and by name.
C28_GroupsPartitionCatalog ==
    pc = "written" =>
        /\ \A name \in DOMAIN functions :
               LET f == functions[name]
                   key == IF Trim(f.category_path) = "" THEN f.category
                          ELSE f.category_path
               IN  /\ key \in DOMAIN grouped
                   /\ Cardinality(PlacesIn(key, f)) = 1
                   /\ \A path \in DOMAIN grouped \ {key} : PlacesIn(path, f) = {}
        /\ \A path \in DOMAIN grouped :
               /\ grouped[path] # << >>
               /\ Range(grouped[path]) \subseteq {functions[name] : name \in DOMAIN functions}
               /\ \A i, j \in 1..Len(grouped[path]) :
                      i < j => MayPrecede(grouped[path][i], grouped[path][j])

\* C28 witness: main has grouped a catalog of three records into two
\* groups, the two records of one group standing against their name order
C28_Witness ==
    /\ pc = "written"
    /\ Cardinality(DOMAIN functions) = 3
    /\ Cardinality(DOMAIN grouped) = 2
    /\ \E path \in DOMAIN grouped :
           /\ Len(grouped[path]) = 2
           /\ StrLess(grouped[path][2].name, grouped[path][1].name)

\* C29: at every step of parse and in the returned catalog, every key of
\* functions, and every key of the override map, is the name field of the
\* record stored under it.
C29_KeyIsRecordName ==
    /\ \A name \in DOMAIN functions : functions[name].name = name
    /\ \A name \in DOMAIN manuals : manuals[name].name = name

\* C29 witness: a returned catalog with an implementation-derived record,
\* a declaration-derived record and an override record
C29_Witness ==
    /\ Returned
    /\ \E name \in DOMAIN functions :
           \E p \in ImplementationsOf(name) : functions[name] = parse_c_file(p)
    /\ \E name \in DOMAIN functions : HeaderDerived(name)
    /\ \E name \in DOMAIN functions :
           name \in DOMAIN manuals /\ functions[name] = MergedManual(manuals[name])

====
